---- MODULE Spec2Model ----
(***************************************************************************)
(* State-machine model of expensetracker.py: a Streamlit script that is    *)
(* re-executed from top to bottom on every user interaction.  The state is *)
(* st.session_state (expenses, monthly_budget), the widget state that      *)
(* survives a rerun (selected page, the file held by the page's uploader,  *)
(* the value of the budget input) and what the last run put on the screen. *)
(*                                                                         *)
(* Amounts are counted in cents; a calendar date is the integer yyyymmdd.  *)
(* Floating-point rounding of sums is not modelled.                        *)
(***************************************************************************)
EXTENDS Integers, Sequences, FiniteSets, TLC

VARIABLES inited, expenses, monthly_budget, page, uploaded, budget_input, out

vars == <<inited, expenses, monthly_budget, page, uploaded, budget_input, out>>

(***************************************************************************)
(* Bounds of the model.                                                    *)
(***************************************************************************)
\* Add is offered only while the ledger holds fewer rows than this.
MaxRows == 2

(***************************************************************************)
(* Cells of a DataFrame.  k is the Python type of the value:               *)
(*   "str"  a str,            "num"  a float (n, in cents),                *)
(*   "date" a datetime.date,  "ts"   a pandas Timestamp at midnight,       *)
(*   "nat"  NaT,              "nan"  NaN.                                  *)
(***************************************************************************)
Str(s) == [k |-> "str", s |-> s, n |-> 0]
Num(n) == [k |-> "num", s |-> "", n |-> n]
DateObj(d) == [k |-> "date", s |-> "", n |-> d]
Ts(d) == [k |-> "ts", s |-> "", n |-> d]
NaT == [k |-> "nat", s |-> "", n |-> 0]
NaN == [k |-> "nan", s |-> "", n |-> 0]

IsNull(c) == c.k \in {"nan", "nat"}

RequiredCols == {"Date", "Category", "Amount", "Description"}
StdColumns == <<"Date", "Category", "Amount", "Description">>

\* pd.DataFrame(columns=[...]): no rows.
EmptyFrame == [columns |-> StdColumns, rows |-> <<>>]

\* DataFrame.empty
Empty(df) == Len(df.rows) = 0 \/ Len(df.columns) = 0

Range(s) == {s[i] : i \in DOMAIN s}

ColIndex(df, name) == CHOOSE i \in DOMAIN df.columns : df.columns[i] = name

\* df[name] as the sequence of its cells, in row order.
Column(df, name) == [i \in DOMAIN df.rows |-> df.rows[i][ColIndex(df, name)]]

(***************************************************************************)
(* Text of numbers and dates.  Each table lists <<text, value>>; the first *)
(* flag says whether the text is the one Python writes for the value.      *)
(***************************************************************************)
NumTexts ==
    { <<"0.0", 0, TRUE>>, <<"1200.0", 120000, TRUE>>, <<"15.75", 1575, TRUE>>, <<"7.8", 780, TRUE>>,
      <<"7.80", 780, FALSE>>, <<"22.5", 2250, TRUE>>, <<"22.50", 2250, FALSE>>,
      <<"12.5", 1250, TRUE>>, <<"12.50", 1250, FALSE>>, <<"4.0", 400, TRUE>>,
      <<"4.00", 400, FALSE>>, <<"-5.0", -500, TRUE>>, <<"-5.00", -500, FALSE>>,
      <<"3.0", 300, TRUE>>, <<"3.00", 300, FALSE>> }

DateTexts ==
    { <<"2025-01-01", 20250101, TRUE>>, <<"2025-01-02", 20250102, TRUE>>,
      <<"2025-01-03", 20250103, TRUE>>, <<"2025-01-05", 20250105, TRUE>>,
      <<"2025-02-03", 20250203, TRUE>>, <<"2025-02-10", 20250210, TRUE>>,
      <<"2024-01-07", 20240107, TRUE>>, <<"1970-01-01", 19700101, TRUE>>,
      <<"1970-01-01 00:00:00", 19700101, FALSE>>,
      <<"2025-01-01 00:00:00", 20250101, FALSE>>,
      <<"2025-01-02 00:00:00", 20250102, FALSE>>,
      <<"2025-01-03 00:00:00", 20250103, FALSE>>,
      <<"2025-01-05 00:00:00", 20250105, FALSE>>,
      <<"2025-02-03 00:00:00", 20250203, FALSE>>,
      <<"2025-02-10 00:00:00", 20250210, FALSE>>,
      <<"2024-01-07 00:00:00", 20240107, FALSE>> }

\* repr(float): the shortest text that reads back as the same float.
ReprFloat(n) == (CHOOSE t \in NumTexts : t[2] = n /\ t[3])[1]

IsNumeric(s) == \E t \in NumTexts : t[1] = s
ParseFloat(s) == (CHOOSE t \in NumTexts : t[1] = s)[2]

\* date.isoformat(), and what a datetime64 column writes for a midnight value.
IsoDate(d) == (CHOOSE t \in DateTexts : t[2] = d /\ t[3])[1]
\* str(Timestamp): what an object column writes for a Timestamp.
IsoDateTime(d) == (CHOOSE t \in DateTexts : t[2] = d /\ ~t[3])[1]

IsDateText(s) == \E t \in DateTexts : t[1] = s
ParseDate(s) == (CHOOSE t \in DateTexts : t[1] = s)[2]

Year(d) == d \div 10000
Month(d) == (d \div 100) % 100

(***************************************************************************)
(* pandas: to_datetime, read_csv, to_csv, groupby(...).sum().              *)
(***************************************************************************)
\* pd.to_datetime(x, errors="coerce") on one element: what does not parse
\* becomes NaT.  A number counts nanoseconds from 1970-01-01 (its sub-day part
\* is dropped here).
ToDatetime(c) ==
    CASE c.k = "date" -> Ts(c.n)
      [] c.k = "ts" -> c
      [] c.k = "str" -> IF IsDateText(c.s) THEN Ts(ParseDate(c.s)) ELSE NaT
      [] c.k = "num" -> Ts(19700101)
      [] OTHER -> NaT

\* pd.api.types.is_datetime64_any_dtype(column)
IsDatetime64(cells) == \A i \in DOMAIN cells : cells[i].k \in {"ts", "nat"}

\* df[name] = cells
SetColumn(df, name, cells) ==
    [df EXCEPT !.rows =
        [i \in DOMAIN df.rows |->
            [df.rows[i] EXCEPT ![ColIndex(df, name)] = cells[i]]]]

\* A CSV file: the header's fields and each line's fields, as text.
NoFile == [some |-> FALSE, header |-> <<>>, rows |-> <<>>]
CsvFile(header, rows) == [some |-> TRUE, header |-> header, rows |-> rows]

\* The texts read_csv takes for a missing value (its default na_values).
NAStrings == {"", "NA", "N/A", "NaN", "nan", "null", "NULL", "None", "n/a", "<NA>", "#N/A"}

\* read_csv raises EmptyDataError on a file with no header line.
ReadCsvRaises(file) == Len(file.header) = 0

\* pd.read_csv(file): the type of a column is inferred from all its fields: a
\* column whose present fields are all numbers is numeric, any other column
\* holds the texts as they are; a missing field is NaN in both.
ReadCsv(file) ==
    LET present(j) == {i \in DOMAIN file.rows : file.rows[i][j] \notin NAStrings}
        numeric(j) == present(j) # {} /\ \A i \in present(j) : IsNumeric(file.rows[i][j])
        cell(i, j) ==
            LET t == file.rows[i][j]
            IN  IF t \in NAStrings THEN NaN
                ELSE IF numeric(j) THEN Num(ParseFloat(t))
                ELSE Str(t)
    IN  [columns |-> file.header,
         rows |-> [i \in DOMAIN file.rows |->
                      [j \in DOMAIN file.header |-> cell(i, j)]]]

\* One field of DataFrame.to_csv: NaN and NaT are written as nothing; a
\* datetime64 column of midnights writes dates only, a Timestamp in an object
\* column writes str(Timestamp).
FormatCell(c, dt64) ==
    CASE c.k = "str" -> c.s
      [] c.k = "num" -> ReprFloat(c.n)
      [] c.k = "date" -> IsoDate(c.n)
      [] c.k = "ts" -> IF dt64 THEN IsoDate(c.n) ELSE IsoDateTime(c.n)
      [] OTHER -> ""

\* DataFrame.to_csv(index=False)
ToCsv(df) ==
    LET dt64(j) == \A i \in DOMAIN df.rows : df.rows[i][j].k \in {"ts", "nat"}
    IN  CsvFile(df.columns,
                [i \in DOMAIN df.rows |->
                    [j \in DOMAIN df.columns |-> FormatCell(df.rows[i][j], dt64(j))]])

\* What one Amount cell adds to Series.sum(): NaN is skipped.
AmountOf(c) == IF c.k = "num" THEN c.n ELSE 0

RECURSIVE SumAmounts(_)
\* Series.sum() of a column of amounts.
SumAmounts(cells) ==
    IF cells = <<>> THEN 0
    ELSE AmountOf(Head(cells)) + SumAmounts(Tail(cells))

\* df[mask]["Amount"]: the amounts of the rows whose index is in mask, in order.
AmountsOfRows(df, mask) ==
    LET amt == ColIndex(df, "Amount")
        F[i \in 0..Len(df.rows)] ==
            IF i = 0 THEN <<>>
            ELSE IF i \in mask THEN Append(F[i - 1], df.rows[i][amt])
            ELSE F[i - 1]
    IN  F[Len(df.rows)]

\* groupby: rows whose key is NaN or NaT belong to no group (dropna=True).
GroupKeys(df, name) == {c \in Range(Column(df, name)) : ~IsNull(c)}

\* df.groupby(name, as_index=False)["Amount"].sum(), as the set of its rows.
GroupSum(df, name) ==
    { [key |-> k,
       Amount |-> SumAmounts(AmountsOfRows(df,
                     {i \in DOMAIN df.rows : Column(df, name)[i] = k}))]
        : k \in GroupKeys(df, name) }

RECURSIVE SortByDate(_)
\* sort_values("Date"): the rows of a Date summary, ascending by date.
SortByDate(S) ==
    IF S = {} THEN <<>>
    ELSE LET first == CHOOSE r \in S : \A q \in S : r.key.n <= q.key.n
         IN  <<first>> \o SortByDate(S \ {first})

(***************************************************************************)
(* The helper functions of the script, as functions of the session's       *)
(* DataFrame.  Each returns what it leaves in st.session_state and what it *)
(* shows.                                                                  *)
(***************************************************************************)
\* pd.DataFrame([[date, category, amount, description]], columns=expenses.columns)
\* raises ValueError unless expenses has exactly four columns.
AddRaises(df) == Len(df.columns) # 4

\* add_expense: the four values go to the columns by position; pd.concat puts
\* the new row after the rows there are.
AddExpense(df, values) == [df EXCEPT !.rows = Append(@, values)]

\* load_expenses_from_file, were the frame stored before the columns are checked.
LoadStoringFirst(df, file) ==
    IF ~file.some THEN [expenses |-> df, msgs |-> {}, raised |-> ""]
    ELSE IF ReadCsvRaises(file)
    THEN [expenses |-> df, msgs |-> {}, raised |-> "EmptyDataError"]
    ELSE [expenses |-> ReadCsv(file),
          msgs |-> IF RequiredCols \subseteq Range(file.header)
                   THEN {"success: Expenses loaded successfully!"}
                   ELSE {"error: CSV file missing required columns: Date, Category, Amount, Description."},
          raised |-> ""]

\* load_expenses_from_file, were Description left out of required_cols.
LoadRequiringThree(df, file) ==
    IF ~file.some THEN [expenses |-> df, msgs |-> {}, raised |-> ""]
    ELSE IF ReadCsvRaises(file)
    THEN [expenses |-> df, msgs |-> {}, raised |-> "EmptyDataError"]
    ELSE IF {"Date", "Category", "Amount"} \subseteq Range(file.header)
    THEN [expenses |-> ReadCsv(file),
          msgs |-> {"success: Expenses loaded successfully!"}, raised |-> ""]
    ELSE [expenses |-> df,
          msgs |-> {"error: CSV file missing required columns: Date, Category, Amount, Description."},
          raised |-> ""]

\* load_expenses_from_file, given the file its uploader holds.
LoadExpensesFromFile(df, file) ==
    IF ~file.some THEN [expenses |-> df, msgs |-> {}, raised |-> ""]
    ELSE IF ReadCsvRaises(file)
    THEN [expenses |-> df, msgs |-> {}, raised |-> "EmptyDataError"]
    ELSE IF RequiredCols \subseteq Range(file.header)
    THEN [expenses |-> ReadCsv(file),
          msgs |-> {"success: Expenses loaded successfully!"}, raised |-> ""]
    ELSE [expenses |-> df,
          msgs |-> {"error: CSV file missing required columns: Date, Category, Amount, Description."},
          raised |-> ""]

\* save_expenses_to_file, were the frame written without the test for emptiness.
SaveWithoutEmptyTest(df) ==
    [csv |-> ToCsv(df), msgs |-> {"success: Expenses saved to 'expenses.csv'!"}]

\* save_expenses_to_file: csv is what it writes to expenses.csv.
SaveExpensesToFile(df) ==
    IF ~Empty(df)
    THEN [csv |-> ToCsv(df), msgs |-> {"success: Expenses saved to 'expenses.csv'!"}]
    ELSE [csv |-> NoFile, msgs |-> {"warning: No expense data available to save."}]

\* download_expenses: csv is the data of the download button.
DownloadExpenses(df) ==
    IF ~Empty(df)
    THEN [csv |-> ToCsv(df), msgs |-> {}]
    ELSE [csv |-> NoFile, msgs |-> {"warning: No expense data to download!"}]

NoCharts == [shown |-> FALSE, cat_summary |-> {}, time_summary |-> <<>>]

\* The Date column as show_visualizations leaves it in st.session_state.
EnsureDatetime(df) ==
    IF ~IsDatetime64(Column(df, "Date"))
    THEN SetColumn(df, "Date",
                   [i \in DOMAIN df.rows |-> ToDatetime(Column(df, "Date")[i])])
    ELSE df

\* cat_summary of show_visualizations (rows in no particular order).
CatSummary(df) == GroupSum(df, "Category")

\* time_summary of show_visualizations.
TimeSummary(df) == SortByDate(GroupSum(df, "Date"))

\* show_visualizations
ShowVisualizations(df) ==
    IF Empty(df)
    THEN [expenses |-> df, charts |-> NoCharts,
          msgs |-> {"warning: No expenses data available for visualization."}]
    ELSE LET Charts(d) ==
                [expenses |-> d,
                 charts |-> [shown |-> TRUE, cat_summary |-> CatSummary(d),
                             time_summary |-> TimeSummary(d)],
                 msgs |-> {}]
         IN  Charts(EnsureDatetime(df))

\* reset_data
ResetData == EmptyFrame

\* load_sample_data
SampleData ==
    [columns |-> StdColumns,
     rows |-> << <<Str("2025-01-01"), Str("Food"), Num(1575), Str("Breakfast")>>,
                 <<Str("2025-01-02"), Str("Transport"), Num(780), Str("Bus fare")>>,
                 <<Str("2025-01-03"), Str("Entertainment"), Num(2250), Str("Movie ticket")>> >>]

(***************************************************************************)
(* The Home page's numbers.  A ratio is kept as numerator and denominator. *)
(***************************************************************************)
NoHome ==
    [shown |-> FALSE, total_expense |-> 0, num_expenses |-> 0, num_categories |-> 0,
     monthly_expenses |-> 0, budget |-> 0, progress |-> [num |-> 0, den |-> 1]]

\* st.session_state.expenses["Amount"].sum()
TotalExpense(df) == SumAmounts(Column(df, "Amount"))

\* st.session_state.expenses["Category"].nunique() if not empty else 0
NumCategories(df) ==
    IF ~Empty(df) THEN Cardinality(GroupKeys(df, "Category")) ELSE 0

\* The sum of the amounts dated in now's month and year, on a copy of the frame.
MonthlyExpenses(df, now) ==
    IF ~Empty(df)
    THEN LET date(i) == ToDatetime(Column(df, "Date")[i])
         IN  SumAmounts(AmountsOfRows(df,
                {i \in DOMAIN df.rows :
                    /\ date(i).k = "ts"
                    /\ Month(date(i).n) = Month(now)
                    /\ Year(date(i).n) = Year(now)}))
    ELSE 0

\* progress = monthly_expenses / budget if budget > 0 else 0
\* progress = progress if progress <= 1 else 1
Progress(monthly, budget) ==
    LET ratio == IF budget > 0 THEN [num |-> monthly, den |-> budget]
                 ELSE [num |-> 0, den |-> 1]
    IN  IF ratio.num <= ratio.den THEN ratio ELSE [num |-> 1, den |-> 1]

HomeMetrics(df, budget, now) ==
    LET Cards(monthly) ==
            [shown |-> TRUE,
             total_expense |-> TotalExpense(df),
             num_expenses |-> Len(df.rows),
             num_categories |-> NumCategories(df),
             monthly_expenses |-> monthly,
             budget |-> budget,
             progress |-> Progress(monthly, budget)]
    IN  Cards(MonthlyExpenses(df, now))

\* st.progress accepts a value from 0.0 to 1.0 and raises on any other.
ProgressRaises(p) == p.num < 0 \/ p.num > p.den

(***************************************************************************)
(* Inputs of the model: what the user and the network can hand the script. *)
(***************************************************************************)
\* The outcomes of requests.get(..., timeout=3).
ProbeOutcomes ==
    {"ok", "connection_refused", "connect_timeout", "read_timeout", "too_many_redirects"}

Pages == {"Home", "Add Expense", "View Expenses", "Visualizations", "Download Data", "Settings"}

\* Submitted forms: <<date, category, amount, description>>, the category being
\* one of the selectbox's options.
FormInputs ==
    { <<DateObj(20250101), Str("Food"), Num(1575), Str("Breakfast")>>,
      <<DateObj(20250210), Str("Other"), Num(120000), Str("")>> }

\* Values typed into the budget input (min_value=0.0).
BudgetInputs == {0, 100000}

\* The days on which a run can take place (pd.Timestamp.now()).
NowSet == {20250120, 20250215}

\* Files the user can pick in an uploader.
FixtureFiles ==
    { CsvFile(StdColumns,
              << <<"2025-01-05", "Rent", "12.50", "Lunch">>,
                 <<"next week", "Food", "3.00", "">> >>),
      CsvFile(StdColumns,
              << <<"someday", "", "4.00", "Cash">>,
                 <<"2025-02-10", "Food", "-5.00", "Refund">> >>),
      CsvFile(StdColumns, <<>>),
      CsvFile(<<"Date", "Category", "Amount", "Description", "Note">>,
              << <<"2025-01-02", "Food", "7.80", "Snack", "paid in cash">> >>),
      CsvFile(<<"Category", "Date", "Amount", "Description">>,
              << <<"Transport", "2024-01-07", "3.00", "Tram">> >>),
      CsvFile(<<"Date", "Category", "Amount">>,
              << <<"2025-01-03", "Food", "4.00">> >>),
      CsvFile(<<>>, <<>>) }

(***************************************************************************)
(* One run of the script.                                                  *)
(***************************************************************************)
\* check_internet: "True", "False", or "raise" when requests.get raises an
\* exception that is no requests.ConnectionError.  ConnectTimeout is a
\* ConnectionError; ReadTimeout and TooManyRedirects are not.
CheckInternet(p) ==
    CASE p = "ok" -> "True"
      [] p \in {"connection_refused", "connect_timeout"} -> "False"
      [] OTHER -> "raise"

NoForm == <<>>

\* What a page leaves in st.session_state and on the screen.
Result(df, budget) ==
    [expenses |-> df, budget |-> budget, msgs |-> {}, raised |-> "",
     csv |-> NoFile, home |-> NoHome, charts |-> NoCharts]

\* if page == "Home"
HomePage(df, budget, now) ==
    LET Shown(m) ==
            [Result(df, budget) EXCEPT
                !.home = m,
                !.raised = IF ProgressRaises(m.progress) THEN "StreamlitAPIException"
                           ELSE ""]
    IN  Shown(HomeMetrics(df, budget, now))

\* elif page == "Add Expense"
AddPage(df, budget, event, form) ==
    IF event # "submit" THEN Result(df, budget)
    ELSE IF AddRaises(df) THEN [Result(df, budget) EXCEPT !.raised = "ValueError"]
    ELSE [Result(AddExpense(df, form), budget) EXCEPT
            !.msgs = {"success: Expense added successfully!"}]

\* elif page == "View Expenses"
ViewPage(df, budget, event, file) ==
    LET info == IF Empty(df)
                THEN {"info: No expense data available. Load sample data or add expenses!"}
                ELSE {}
        Saved(ld) == IF event = "save" /\ ld.raised = ""
                     THEN SaveExpensesToFile(ld.expenses)
                     ELSE [csv |-> NoFile, msgs |-> {}]
        Shown(ld, sv) ==
            [Result(ld.expenses, budget) EXCEPT
                !.msgs = info \cup ld.msgs \cup sv.msgs,
                !.raised = ld.raised,
                !.csv = sv.csv]
        Loaded(ld) == Shown(ld, Saved(ld))
    IN  Loaded(LoadExpensesFromFile(df, file))

\* elif page == "Visualizations"
VisualizationsPage(df, budget) ==
    LET Shown(v) ==
            [Result(v.expenses, budget) EXCEPT !.msgs = v.msgs, !.charts = v.charts]
    IN  Shown(ShowVisualizations(df))

\* elif page == "Download Data"
DownloadPage(df, budget) ==
    LET Shown(d) == [Result(df, budget) EXCEPT !.msgs = d.msgs, !.csv = d.csv]
    IN  Shown(DownloadExpenses(df))

\* elif page == "Settings": the budget input's value is stored first, then the
\* uploader's file is loaded, then the clicked button acts.
SettingsPage(df, input, event, file) ==
    LET Loaded(ld) ==
            LET clicked == ld.raised = "" /\ event \in {"delete_csv", "reset", "sample"}
                after == IF ~clicked THEN ld.expenses
                         ELSE IF event = "sample" THEN SampleData
                         ELSE ResetData
                said == IF ~clicked THEN {}
                        ELSE IF event = "sample"
                        THEN {"success: Sample expense data loaded!"}
                        ELSE {"success: Expense data has been reset."}
            IN  [Result(after, input) EXCEPT
                    !.msgs = ld.msgs \cup said, !.raised = ld.raised]
    IN  Loaded(LoadExpensesFromFile(df, file))

\* The page part of the script (from "if page == ..." on).
PageBody(pg, df, budget, event, form, file, input, now) ==
    CASE pg = "Home" -> HomePage(df, budget, now)
      [] pg = "Add Expense" -> AddPage(df, budget, event, form)
      [] pg = "View Expenses" -> ViewPage(df, budget, event, file)
      [] pg = "Visualizations" -> VisualizationsPage(df, budget)
      [] pg = "Download Data" -> DownloadPage(df, budget)
      [] OTHER -> SettingsPage(df, input, event, file)

\* The screen of a run, with the interaction (event) that started the run.
Screen(p, event, r) ==
    [event |-> event, banner |-> CheckInternet(p) = "False", raised |-> r.raised,
     msgs |-> r.msgs, csv |-> r.csv, home |-> r.home, charts |-> r.charts]

\* The exception requests.get raises on outcome p.
ProbeException(p) ==
    CASE p = "connection_refused" -> "ConnectionError"
      [] p = "connect_timeout" -> "ConnectTimeout"
      [] p = "read_timeout" -> "ReadTimeout"
      [] p = "too_many_redirects" -> "TooManyRedirects"
      [] OTHER -> ""

\* The screen of a run that check_internet ended with an exception.
Aborted(p, event) ==
    [event |-> event, banner |-> FALSE, raised |-> ProbeException(p),
     msgs |-> {}, csv |-> NoFile, home |-> NoHome, charts |-> NoCharts]

\* A whole run: the probe, the session's initialisation, the selected page.
\* df and budget are the session's values once initialised; pg, file and input
\* are the widgets' values in this run.  A run that check_internet ends with an
\* exception leaves st.session_state as it was and the widgets as the user set
\* them.
Script(p, pg, df, budget, event, form, file, input, now) ==
    IF CheckInternet(p) = "raise"
    THEN /\ out' = Aborted(p, event)
         /\ page' = pg
         /\ uploaded' = file
         /\ budget_input' = input
         /\ UNCHANGED <<inited, expenses, monthly_budget>>
    ELSE LET Store(r) ==
                 /\ inited' = TRUE
                 /\ expenses' = r.expenses
                 /\ monthly_budget' = r.budget
                 /\ page' = pg
                 /\ uploaded' = file
                 /\ budget_input' = r.budget
                 /\ out' = Screen(p, event, r)
         IN  Store(PageBody(pg, df, budget, event, form, file, input, now))

\* A session before its first run: st.session_state holds no key.
NoFrame == [columns |-> <<>>, rows |-> <<>>]

\* The default monthly budget, in cents.
DefaultBudget == 100000

Init ==
    /\ inited = FALSE
    /\ expenses = NoFrame
    /\ monthly_budget = 0
    /\ page = "Home"
    /\ uploaded = NoFile
    /\ budget_input = DefaultBudget
    /\ out = [event |-> "", banner |-> FALSE, raised |-> "", msgs |-> {}, csv |-> NoFile,
              home |-> NoHome, charts |-> NoCharts]

\* The last run was ended by check_internet: nothing but the exception is on
\* the screen.
ProbeFailed == out.raised \in {ProbeException(p) : p \in ProbeOutcomes} \ {""}

\* The sidebar's widgets are on the screen.
SidebarShown == inited /\ ~ProbeFailed

\* The whole page is on the screen: the run reached the end of the script.
PageShown == SidebarShown /\ out.raised = ""

\* The first run of a session, repeated while check_internet raises: expenses
\* and monthly_budget are created, the Home page is shown.
FirstRun ==
    /\ ~inited
    /\ \E p \in ProbeOutcomes, now \in NowSet :
          Script(p, "Home", EmptyFrame, DefaultBudget, "open", NoForm, NoFile,
                 DefaultBudget, now)

\* The user reruns the script after a run that check_internet ended.
Rerun ==
    /\ inited
    /\ ProbeFailed
    /\ \E p \in ProbeOutcomes :
       \E now \in (IF page = "Home" THEN NowSet ELSE {0}) :
          Script(p, page, expenses, monthly_budget, "rerun", NoForm, uploaded,
                 budget_input, now)

\* The user selects another page in the sidebar: widgets of the page left are
\* dropped, the new page's uploader is empty.
Navigate ==
    /\ SidebarShown
    /\ \E p \in ProbeOutcomes, pg \in Pages \ {page} :
       \E now \in (IF pg = "Home" THEN NowSet ELSE {0}) :
          Script(p, pg, expenses, monthly_budget, "navigate", NoForm, NoFile,
                 monthly_budget, now)

\* The user submits the Add Expense form.
SubmitExpense ==
    /\ SidebarShown
    /\ page = "Add Expense"
    /\ Len(expenses.rows) < MaxRows
    /\ \E p \in ProbeOutcomes, form \in FormInputs :
          Script(p, page, expenses, monthly_budget, "submit", form, NoFile,
                 monthly_budget, 0)

\* The files at hand: the fixtures, and expenses.csv when the last run wrote it.
FilesAtHand == FixtureFiles \cup (IF out.csv.some THEN {out.csv} ELSE {})

\* The user puts a file into the page's uploader.
UploadCsv ==
    /\ SidebarShown
    /\ page \in {"View Expenses", "Settings"}
    /\ \E p \in ProbeOutcomes, file \in FilesAtHand :
          Script(p, page, expenses, monthly_budget, "upload", NoForm, file,
                 monthly_budget, 0)

\* The user removes the file from the page's uploader.
ClearUpload ==
    /\ SidebarShown
    /\ page \in {"View Expenses", "Settings"}
    /\ uploaded.some
    /\ \E p \in ProbeOutcomes :
          Script(p, page, expenses, monthly_budget, "clear", NoForm, NoFile,
                 monthly_budget, 0)

\* "Save Expenses" on the View Expenses page.
ClickSave ==
    /\ PageShown
    /\ page = "View Expenses"
    /\ \E p \in ProbeOutcomes :
          Script(p, page, expenses, monthly_budget, "save", NoForm, uploaded,
                 monthly_budget, 0)

\* "Delete CSV Data", "Reset Expense Data" or "Load Sample Data" on Settings.
ClickSettingsButton ==
    /\ PageShown
    /\ page = "Settings"
    /\ \E p \in ProbeOutcomes, b \in {"delete_csv", "reset", "sample"} :
          Script(p, page, expenses, monthly_budget, b, NoForm, uploaded,
                 monthly_budget, 0)

\* The user changes the budget input on Settings.
SetBudget ==
    /\ SidebarShown
    /\ page = "Settings"
    /\ \E p \in ProbeOutcomes, input \in BudgetInputs \ {monthly_budget} :
          Script(p, page, expenses, monthly_budget, "budget", NoForm, uploaded,
                 input, 0)

Next ==
    \/ FirstRun
    \/ Rerun
    \/ Navigate
    \/ SubmitExpense
    \/ UploadCsv
    \/ ClearUpload
    \/ ClickSave
    \/ ClickSettingsButton
    \/ SetBudget

Spec == Init /\ [][Next]_vars

(***************************************************************************)
(* Properties.                                                             *)
(***************************************************************************)
\* The cell of row i in the column called name.
Field(df, i, name) == df.rows[i][ColIndex(df, name)]

\* The sum of the amounts of the rows of df numbered in I, counted row by row.
SumRows(df, I) ==
    LET F[i \in 0..Len(df.rows)] ==
            IF i = 0 THEN 0
            ELSE F[i - 1] + (IF i \in I /\ Field(df, i, "Amount").k = "num"
                             THEN Field(df, i, "Amount").n ELSE 0)
    IN  F[Len(df.rows)]

\* The rows of df whose Date is a calendar day of now's month and year.
RowsOfMonth(df, now) ==
    {i \in DOMAIN df.rows :
        /\ ToDatetime(Field(df, i, "Date")).k = "ts"
        /\ Month(ToDatetime(Field(df, i, "Date")).n) = Month(now)
        /\ Year(ToDatetime(Field(df, i, "Date")).n) = Year(now)}

RECURSIVE SumOfGroups(_)
\* The sum of the Amount column of a summary.
SumOfGroups(S) ==
    IF S = {} THEN 0
    ELSE LET g == CHOOSE x \in S : TRUE
         IN  g.Amount + SumOfGroups(S \ {g})

\* The file does not have all four required columns.
BadColumns(file) == file.some /\ ~(RequiredCols \subseteq Range(file.header))

\* The run told the user that the import failed.
ImportRefused(o) ==
    \/ "error: CSV file missing required columns: Date, Category, Amount, Description." \in o.msgs
    \/ o.raised = "EmptyDataError"

\* C1 (import atomicity): a run in which the user uploads a file that lacks one
\* of the columns Date, Category, Amount, Description reports an error and
\* leaves the ledger (records, order, values) and the budget as they were.
C1_ImportAtomicity ==
    [][(out'.event = "upload" /\ ~ProbeFailed' /\ BadColumns(uploaded'))
        => (ImportRefused(out') /\ expenses' = expenses
            /\ monthly_budget' = monthly_budget)]_vars

\* A refused import has left a ledger that holds records.
C1_RefusedWithRecords ==
    /\ ~ProbeFailed
    /\ BadColumns(uploaded)
    /\ ImportRefused(out)
    /\ Len(expenses.rows) > 0

\* C2 (aggregator purity): showing the Home page or the Visualizations page
\* leaves the ledger and the budget unchanged.
C2_ViewsLeaveLedgerUnchanged ==
    [][(inited /\ page' \in {"Home", "Visualizations"})
        => (expenses' = expenses /\ monthly_budget' = monthly_budget)]_vars

\* new is old with exactly one more record, put after the records of old.
AppendedOne(old, new) ==
    /\ new.columns = old.columns
    /\ Len(new.rows) = Len(old.rows) + 1
    /\ SubSeq(new.rows, 1, Len(old.rows)) = old.rows

\* C3 (append order): from every ledger, submitting the form appends exactly
\* one record after the records there are, which stay as they were and in
\* their order.
C3_AddAppendsAtEnd ==
    [][(out'.event = "submit" /\ ~ProbeFailed') => AppendedOne(expenses, expenses')]_vars

\* Every Date of the ledger is a calendar date.
ValidDates(df) == \A i \in DOMAIN df.rows : ToDatetime(Field(df, i, "Date")).k = "ts"

\* Two frames hold the same records in the same order: equal Category, Amount
\* and Description, and Dates that are the same calendar day.
SameRecords(a, b) ==
    /\ Len(a.rows) = Len(b.rows)
    /\ \A i \in DOMAIN a.rows :
          /\ ToDatetime(Field(a, i, "Date")) = ToDatetime(Field(b, i, "Date"))
          /\ Field(a, i, "Category") = Field(b, i, "Category")
          /\ Field(a, i, "Amount") = Field(b, i, "Amount")
          /\ Field(a, i, "Description") = Field(b, i, "Description")

\* C4 (round trip): when the file just saved from a non-empty ledger with valid
\* dates is uploaded again, the import succeeds and the ledger holds the same
\* records in the same order as before.
C4_RoundTrip ==
    [][(out'.event = "upload" /\ ~ProbeFailed' /\ out.csv.some /\ uploaded' = out.csv
            /\ out.csv = ToCsv(expenses) /\ ValidDates(expenses))
        => (/\ out'.raised = ""
            /\ "success: Expenses loaded successfully!" \in out'.msgs
            /\ SameRecords(expenses', expenses))]_vars

\* C5 (aggregation conservation): the per-category totals on the
\* Visualizations page add up to the total of all amounts of the ledger.
C5_CategoryTotalsAddUp ==
    out.charts.shown => SumOfGroups(out.charts.cat_summary) = TotalExpense(expenses)

\* C6 (clamping): the ratio the Home page hands to the progress bar lies in
\* [0, 1], and is 0 when the budget is 0.
C6_ProgressInUnitInterval ==
    out.home.shown
        => /\ 0 <= out.home.progress.num
           /\ out.home.progress.num <= out.home.progress.den
           /\ (out.home.budget = 0 => out.home.progress.num = 0)

\* The run warned that there is nothing to save.
SaveWarned(o) == "warning: No expense data available to save." \in o.msgs
\* The run warned that there is nothing to download.
DownloadWarned(o) == "warning: No expense data to download!" \in o.msgs

\* What an export of ledger df must have put on screen o.
ExportOutcome(df, o, warned) ==
    /\ o.raised = ""
    /\ IF Empty(df)
       THEN ~o.csv.some /\ warned
       ELSE /\ o.csv.some /\ ~warned
            /\ Len(o.csv.rows) = Len(df.rows)

\* C7 (export outcome): Save and Download warn and write nothing on an empty
\* ledger, produce the file on a non-empty one, never raise, and leave the
\* ledger and the budget as they were.
C7_ExportOutcome ==
    [][/\ (out'.event = "save" /\ ~ProbeFailed')
            => /\ expenses' = expenses /\ monthly_budget' = monthly_budget
               /\ ExportOutcome(expenses, out', SaveWarned(out'))
       /\ (out'.event = "navigate" /\ ~ProbeFailed' /\ page' = "Download Data")
            => /\ expenses' = expenses /\ monthly_budget' = monthly_budget
               /\ ExportOutcome(expenses, out', DownloadWarned(out'))]_vars

\* Save was clicked on an empty ledger and warned.
C7_SaveWarnedOnEmpty ==
    /\ out.event = "save"
    /\ Empty(expenses)
    /\ SaveWarned(out)
    /\ ~out.csv.some

\* C8 (advisory probe): whatever the outcome of the reachability probe, the
\* run goes on past it: no run is ended by check_internet.
C8_ProbeNeverEndsTheRun == ~ProbeFailed

\* The Date of row i of df does not parse as a calendar date.
Unparseable(df, i) == ToDatetime(Field(df, i, "Date")).k # "ts"

\* C9 (unparseable dates): a record whose Date does not parse is in no group
\* of the over-time view and not in the monthly sum, its amount is counted in
\* its category's total and in the totals (sum and number of records), and the
\* over-time groups are in ascending order of date.
C9_UnparseableDates ==
    /\ out.charts.shown =>
          LET ts == out.charts.time_summary
          IN  /\ \A i \in DOMAIN ts : ts[i].key.k = "ts"
              /\ SumOfGroups(Range(ts))
                    = SumRows(expenses,
                         {i \in DOMAIN expenses.rows : ~Unparseable(expenses, i)})
              /\ \A i, j \in DOMAIN ts : i < j => ts[i].key.n < ts[j].key.n
              /\ \A i \in DOMAIN expenses.rows :
                    Unparseable(expenses, i) =>
                       \E g \in out.charts.cat_summary :
                          /\ g.key = Field(expenses, i, "Category")
                          /\ g.Amount = SumRows(expenses,
                                {j \in DOMAIN expenses.rows :
                                    Field(expenses, j, "Category") = g.key})
    /\ out.home.shown =>
          /\ out.home.total_expense = SumRows(expenses, DOMAIN expenses.rows)
          /\ out.home.num_expenses = Len(expenses.rows)
          /\ \E now \in NowSet :
                out.home.monthly_expenses = SumRows(expenses, RowsOfMonth(expenses, now))

\* The part of C9 that does not rest on the record having a category: C9 for
\* the records whose Category is not missing.
UnparseableDatesWithCategory ==
    /\ out.charts.shown =>
          LET ts == out.charts.time_summary
          IN  /\ \A i \in DOMAIN ts : ts[i].key.k = "ts"
              /\ SumOfGroups(Range(ts))
                    = SumRows(expenses,
                         {i \in DOMAIN expenses.rows : ~Unparseable(expenses, i)})
              /\ \A i, j \in DOMAIN ts : i < j => ts[i].key.n < ts[j].key.n
              /\ \A i \in DOMAIN expenses.rows :
                    (Unparseable(expenses, i) /\ ~IsNull(Field(expenses, i, "Category"))) =>
                       \E g \in out.charts.cat_summary :
                          /\ g.key = Field(expenses, i, "Category")
                          /\ g.Amount = SumRows(expenses,
                                {j \in DOMAIN expenses.rows :
                                    Field(expenses, j, "Category") = g.key})
    /\ out.home.shown =>
          /\ out.home.total_expense = SumRows(expenses, DOMAIN expenses.rows)
          /\ out.home.num_expenses = Len(expenses.rows)
          /\ \E now \in NowSet :
                out.home.monthly_expenses = SumRows(expenses, RowsOfMonth(expenses, now))

\* C10 (ledger schema): every record of the ledger has a value in each of the
\* columns Date, Category, Amount and Description.
C10_Schema ==
    \A i \in DOMAIN expenses.rows :
       \A f \in RequiredCols :
          /\ f \in Range(expenses.columns)
          /\ ColIndex(expenses, f) \in DOMAIN expenses.rows[i]

\* A record was added to a ledger that came from a file with its columns in
\* another order.
C10_AddedAfterImport ==
    /\ "success: Expense added successfully!" \in out.msgs
    /\ expenses.columns # StdColumns
    /\ Len(expenses.rows) > 1

====
